---- MODULE Spec2Model ----
(***************************************************************************)
(* Account security of the mypadi accounts app: progressive lockout,       *)
(* session-held one-time codes, MFA backup codes and the login / MFA       *)
(* views (src/accounts/models.py, utils.py, forms.py, views.py).           *)
(*                                                                         *)
(* Time is counted in minutes.  A nullable DateTimeField is a sequence of  *)
(* length 0 (None) or 1 (the timestamp).                                   *)
(***************************************************************************)
EXTENDS Integers, Sequences, FiniteSets, TLC

VARIABLES
    now,        \* timezone.now(), in minutes
    user,       \* the stored row of the account under study (accounts.User)
    call,       \* the last model-method call made on the account: op, result, row before
    session,    \* the session store: per browser session its data and expire_date
    otp_ch,     \* the one-time challenge last issued: purpose, code, issue time, use so far
    otp_call,   \* the last call of verify_otp_from_session and what it met
    inst,       \* per request worker: the User instance it loaded, if any
    res,        \* per request worker: the result of its verify_backup_code call
    bk,         \* the backup codes last shown to the user, those used, the last call
    alias,      \* whether a second account exists whose username is the first one's email
    cache,      \* the Django cache: per key the counter and when it expires
    devices,    \* the TrustedDevice rows of the account, in primary-key order
    last,       \* the last view call: its request, its response, the log rows it wrote
    streak,     \* the wrong-password login POSTs made in a row on a clean account
    calls       \* the number of view calls made so far

vars == <<now, user, call, session, otp_ch, otp_call, inst, res, bk,
          alias, cache, devices, last, streak, calls>>

viewsOnly == <<alias, cache, devices, last, streak, calls>>
lockOther == <<session, otp_ch, otp_call, inst, res, bk, viewsOnly>>
otpOther == <<user, call, inst, res, bk, viewsOnly>>
bkOther == <<now, call, session, otp_ch, otp_call, viewsOnly>>
viewsOther == <<call, otp_ch, otp_call, inst, res, bk>>
rateOther == <<user, session, otp_ch, otp_call, bk, alias, devices, streak, calls>>
raceOther == <<session, otp_ch, otp_call, bk, viewsOnly>>

\* ------------------------------------------------------------------ bounds

MaxTimeLock == 36   \* the clock of the lockout specification stops here
MaxFailed == 6      \* failed_login_attempts is not incremented beyond this
MaxTimeOtp == 12    \* the clock of the one-time-code specification stops here
MaxWrongs == 6      \* wrong submissions counted per challenge
BackupCount == 4    \* generate_backup_codes(count): codes drawn per generation
MaxTime == 5        \* the clock of the views specification stops here
MaxCalls == 5       \* view calls followed in one behaviour
MaxLoginCalls == 6  \* login POSTs followed when only logins are made
MaxTimeRace == 3    \* the clock of the concurrent failed-login specification stops here
MaxTrustCalls == 6  \* calls followed in the device-trust specification
MaxTimeRate == 20   \* the clock of the rate-limiter specifications stops here
MaxIncrements == 6  \* increment_rate_limit calls followed for one key
MaxTokenTime == 32  \* the clock of the link-token specification, in hours, stops here
TokenTickHours == 8 \* the hours between two instants at which tokens are made or checked
MaxTokenLen == 7    \* no token string made is longer than this
TickMinutes == 5    \* the minutes between two instants at which views are called

\* ------------------------------------------------------- program constants

LockThresholdShort == 3     \* failed_login_attempts >= 3
LockThresholdLong == 5      \* failed_login_attempts >= 5
LockMinutesShort == 5       \* timedelta(minutes=5)
LockMinutesLong == 30       \* timedelta(minutes=30)
OtpMaxAttempts == 5         \* verify_otp_from_session(max_attempts=5)
OtpValidMinutes == 10       \* created_at + timedelta(minutes=10)
EmailOtpExpiryMinutes == 10 \* store_otp_in_session(..., expiry_minutes=10)
MfaOtpExpiryMinutes == 5    \* store_otp_in_session(..., expiry_minutes=5)
SessionCookieAge == 20160   \* Django's SESSION_COOKIE_AGE default: two weeks
IpMaxAttempts == 10         \* is_rate_limited("login_ip:...", max_attempts=10)
UserMaxAttempts == 5        \* is_rate_limited("login_user:...", max_attempts=5)
ResendMaxAttempts == 3      \* is_rate_limited("resend_verification:...", max_attempts=3)
RateWindowMinutes == 15     \* increment_rate_limit(..., window_minutes=15)
RegisterMaxAttempts == 3    \* is_rate_limited("register_ip:...", max_attempts=3)
RegisterWindowMinutes == 60 \* increment_rate_limit("register_ip:...", window_minutes=60)
MfaSessionMinutes == 5      \* request.session.set_expiry(300)
RememberMinutes == 20160    \* request.session.set_expiry(1209600)
MfaResendMax == 3           \* resend_count >= 3

\* --------------------------------------------------------------- User row

None == <<>>

\* User(): the field defaults of a freshly created account.
NewUser ==
    [ email_verified        |-> FALSE,
      mfa_method            |-> "none",
      failed_login_attempts |-> 0,
      account_locked_until  |-> None,
      mfa_backup_codes      |-> <<>>,
      totp_secret           |-> "",
      last_login_ip         |-> "",
      last_login_at         |-> None ]

\* A lazy unlock that forgets to clear the failure counter.
is_account_locked_KeepsCounter(u, t) ==
    IF u.account_locked_until # None
    THEN IF t < u.account_locked_until[1]
         THEN [ret |-> TRUE, user |-> u]
         ELSE [ret |-> FALSE, user |-> [u EXCEPT !.account_locked_until = None]]
    ELSE [ret |-> FALSE, user |-> u]

\* User.is_account_locked: the result and the row as saved by the call.
is_account_locked(u, t) ==
    IF u.account_locked_until # None
    THEN IF t < u.account_locked_until[1]
         THEN [ret |-> TRUE, user |-> u]
         ELSE [ret |-> FALSE,
               user |-> [u EXCEPT !.account_locked_until = None,
                                  !.failed_login_attempts = 0]]
    ELSE [ret |-> FALSE, user |-> u]

\* The escalation with the long lock never chosen.
lock_duration_NoEscalation(n) ==
    IF n >= LockThresholdShort THEN <<LockMinutesShort>> ELSE None

\* The lock duration increment_failed_login picks for a counter value.
lock_duration(n) ==
    IF n >= LockThresholdLong THEN <<LockMinutesLong>>
    ELSE IF n >= LockThresholdShort THEN <<LockMinutesShort>>
    ELSE None

\* User.increment_failed_login: the row as saved by the call.
increment_failed_login(u, t) ==
    LET n == u.failed_login_attempts + 1
        d == lock_duration(n)
    IN  [u EXCEPT !.failed_login_attempts = n,
                  !.account_locked_until =
                      IF d # None THEN <<t + d[1]>> ELSE @]

\* reset_failed_logins leaving the row as it is
reset_failed_logins_KeepsCounter(u) == u

\* reset_failed_logins clearing the counter only
reset_failed_logins_KeepsLock(u) ==
    [u EXCEPT !.failed_login_attempts = 0]

\* User.reset_failed_logins: the row as saved by the call.
reset_failed_logins(u) ==
    [u EXCEPT !.failed_login_attempts = 0, !.account_locked_until = None]

NoCall == [op |-> "none", ret |-> FALSE, pre |-> NewUser]

\* ------------------------------------------------- sessions and one-time codes

Sessions == {"s1", "s2"}        \* the browser sessions followed
Codes6 == {"111111", "222222"}  \* six-digit codes generate_otp(6) may draw
Purposes == {"email_verification", "mfa"}

\* request.session.get(key, default)
Get(d, k, default) == IF k \in DOMAIN d THEN d[k] ELSE default

\* request.session[key] = value
Put(d, k, v) == [x \in DOMAIN d \cup {k} |-> IF x = k THEN v ELSE d[x]]

\* request.session.pop(key, None), for every key of ks
Pop(d, ks) == [x \in DOMAIN d \ ks |-> d[x]]

\* bool(request.session.get(key)): the values stored here are never falsy
\* (non-empty strings, a positive user id, True), so this is the key's presence.
Truthy(d, k) == k \in DOMAIN d

EmptyData == [x \in {} |-> 0]

\* A browser session with no stored row.
NoSession == [data |-> EmptyData, expire_at |-> None]

\* SessionBase.get_expiry_age: the set_expiry value, or SESSION_COOKIE_AGE when
\* it is unset or 0 (browser-length cookie).
ExpiryAge(d) ==
    LET e == Get(d, "_session_expiry", 0)
    IN  IF e = 0 THEN SessionCookieAge ELSE e

\* The data a request finds: nothing once expire_date has passed.
Load(sess, t) ==
    IF sess.expire_at # None /\ t < sess.expire_at[1]
    THEN sess.data ELSE EmptyData

\* The row after a request: saved, with a new expire_date, only when modified.
Save(sess, d, modified, t) ==
    IF ~modified THEN sess
    ELSE IF d = EmptyData THEN NoSession
    ELSE [data |-> d, expire_at |-> <<t + ExpiryAge(d)>>]

\* datetime.isoformat and datetime.fromisoformat
isoformat(t) == <<"iso", t>>
fromisoformat(x) == x[2]

otp_key(purpose) == purpose \o "_otp"
timestamp_key(purpose) == purpose \o "_otp_created_at"
attempts_key(purpose) == purpose \o "_failed_attempts"

\* clear_otp_session: the session data after the five pops.
clear_otp_session(d, purpose) ==
    Pop(d, { otp_key(purpose), timestamp_key(purpose), attempts_key(purpose),
             purpose \o "_user_id", purpose \o "_email" })

\* store_otp_in_session: the session data after the call (set_expiry is in minutes).
store_otp_in_session(d, otp, purpose, expiry_minutes, t) ==
    Put(Put(Put(Put(d, otp_key(purpose), otp),
                timestamp_key(purpose), isoformat(t)),
            attempts_key(purpose), 0),
        "_session_expiry", expiry_minutes)

\* A verification that leaves the code in the session after a success.
verify_otp_from_session_NoConsume(d, otp, purpose, t) ==
    LET stored == Get(d, otp_key(purpose), "")
        created == Get(d, timestamp_key(purpose), "")
        failed == Get(d, attempts_key(purpose), 0)
    IN  IF ~Truthy(d, otp_key(purpose)) \/ ~Truthy(d, timestamp_key(purpose))
        THEN [ok |-> FALSE, msg |-> "no_otp", data |-> d]
        ELSE IF failed >= OtpMaxAttempts
        THEN [ok |-> FALSE, msg |-> "too_many", data |-> clear_otp_session(d, purpose)]
        ELSE IF t > fromisoformat(created) + OtpValidMinutes
        THEN [ok |-> FALSE, msg |-> "expired", data |-> clear_otp_session(d, purpose)]
        ELSE IF otp = stored
        THEN [ok |-> TRUE, msg |-> "ok", data |-> d]
        ELSE IF OtpMaxAttempts - (failed + 1) > 0
        THEN [ok |-> FALSE, msg |-> "invalid",
              data |-> Put(d, attempts_key(purpose), failed + 1)]
        ELSE [ok |-> FALSE, msg |-> "max_exceeded",
              data |-> clear_otp_session(Put(d, attempts_key(purpose), failed + 1), purpose)]

\* A verification that never counts or caps the failures.
verify_otp_from_session_NoCap(d, otp, purpose, t) ==
    LET stored == Get(d, otp_key(purpose), "")
        created == Get(d, timestamp_key(purpose), "")
    IN  IF ~Truthy(d, otp_key(purpose)) \/ ~Truthy(d, timestamp_key(purpose))
        THEN [ok |-> FALSE, msg |-> "no_otp", data |-> d]
        ELSE IF t > fromisoformat(created) + OtpValidMinutes
        THEN [ok |-> FALSE, msg |-> "expired", data |-> clear_otp_session(d, purpose)]
        ELSE IF otp = stored
        THEN [ok |-> TRUE, msg |-> "ok", data |-> clear_otp_session(d, purpose)]
        ELSE [ok |-> FALSE, msg |-> "invalid", data |-> d]

\* verify_otp_from_session: (success, message) and the session data after the call.
verify_otp_from_session(d, otp, purpose, t) ==
    LET stored == Get(d, otp_key(purpose), "")
        created == Get(d, timestamp_key(purpose), "")
        failed == Get(d, attempts_key(purpose), 0)
    IN  IF ~Truthy(d, otp_key(purpose)) \/ ~Truthy(d, timestamp_key(purpose))
        THEN [ok |-> FALSE, msg |-> "no_otp", data |-> d]
        ELSE IF failed >= OtpMaxAttempts
        THEN [ok |-> FALSE, msg |-> "too_many", data |-> clear_otp_session(d, purpose)]
        ELSE IF t > fromisoformat(created) + OtpValidMinutes
        THEN [ok |-> FALSE, msg |-> "expired", data |-> clear_otp_session(d, purpose)]
        ELSE IF otp = stored
        THEN [ok |-> TRUE, msg |-> "ok", data |-> clear_otp_session(d, purpose)]
        ELSE IF OtpMaxAttempts - (failed + 1) > 0
        THEN [ok |-> FALSE, msg |-> "invalid",
              data |-> Put(d, attempts_key(purpose), failed + 1)]
        ELSE [ok |-> FALSE, msg |-> "max_exceeded",
              data |-> clear_otp_session(Put(d, attempts_key(purpose), failed + 1), purpose)]

\* The expiry_minutes each caller of store_otp_in_session passes for its purpose.
IssueExpiry(purpose) ==
    IF purpose = "mfa" THEN MfaOtpExpiryMinutes ELSE EmailOtpExpiryMinutes

\* No challenge issued yet for the purpose.
NoChallenge(purpose) ==
    [purpose |-> purpose, code |-> None, issued_at |-> 0, wrongs |-> 0, verified |-> FALSE]

NoOtpCall ==
    [op |-> "none", ok |-> FALSE, msg |-> "none", correct |-> FALSE, age |-> 0,
     wrongs |-> 0, verified |-> FALSE, issued |-> FALSE]

\* No view has been called: no second account, empty cache, no trusted device.
NoLast ==
    [op |-> "none", s |-> "", result |-> "", logged |-> {}, attempts |-> <<>>]

NoStreak == [n |-> 0, identifier |-> "", s |-> "", start |-> 0, at |-> 0]

ViewsIdle ==
    /\ alias = FALSE
    /\ cache = EmptyData
    /\ devices = <<>>
    /\ last = NoLast
    /\ streak = NoStreak
    /\ calls = 0

\* ------------------------------------------------------------ backup codes

Workers == {"w1", "w2"}                           \* request workers
Codes8 == {"11111111", "22222222"}                \* values of f"{randbelow(10**8):08d}"

\* hashlib.sha256(code.encode()).hexdigest()
Sha256(code) == <<"sha256", code>>

\* list.remove(x): the list without the first occurrence of x.
RECURSIVE ListRemove(_, _)
ListRemove(l, x) ==
    IF l = <<>> THEN <<>>
    ELSE IF Head(l) = x THEN Tail(l)
    ELSE <<Head(l)>> \o ListRemove(Tail(l), x)

\* x in list
InList(l, x) == \E i \in 1..Len(l) : l[i] = x

\* The number of occurrences of x in the list.
CountIn(l, x) == Cardinality({i \in 1..Len(l) : l[i] = x})

\* User.generate_backup_codes: the row saved, for the codes the draws gave.
generate_backup_codes(u, draws) ==
    [u EXCEPT !.mfa_backup_codes = [i \in 1..Len(draws) |-> Sha256(draws[i])]]

\* User.verify_backup_code on an instance: the result and the instance after
\* it; when the result is True the instance's mfa_backup_codes is saved.
verify_backup_code(u, code) ==
    LET h == Sha256(code)
    IN  IF InList(u.mfa_backup_codes, h)
        THEN [ret |-> TRUE,
              user |-> [u EXCEPT !.mfa_backup_codes = ListRemove(@, h)]]
        ELSE [ret |-> FALSE, user |-> u]

NoBk == [issued |-> <<>>, used |-> {},
         last |-> [op |-> "none", code |-> "", ret |-> FALSE, pre |-> <<>>, used |-> {}]]

\* No request in flight and no backup codes generated.
BkIdle ==
    /\ inst = [w \in Workers |-> None]
    /\ res = [w \in Workers |-> None]
    /\ bk = NoBk

BackupInit ==
    /\ now = 0
    /\ user = NewUser
    /\ call = NoCall
    /\ session = [s \in Sessions |-> NoSession]
    /\ otp_ch = NoChallenge("email_verification")
    /\ otp_call = NoOtpCall
    /\ BkIdle
    /\ ViewsIdle

\* select_mfa_method / regenerate_backup_codes: user.generate_backup_codes(count).
BkGenerate(draws) ==
    /\ user' = generate_backup_codes(user, draws)
    /\ bk' = [issued |-> draws, used |-> {},
              last |-> [NoBk.last EXCEPT !.op = "generate"]]
    /\ res' = [w \in Workers |-> None]
    /\ UNCHANGED <<inst, bkOther>>

\* A request loads the account: User.objects.get(id=...).
BkLoad(w) ==
    /\ inst[w] = None
    /\ inst' = [inst EXCEPT ![w] = <<user>>]
    /\ res' = [res EXCEPT ![w] = None]
    /\ UNCHANGED <<user, bk, bkOther>>

\* The request calls verify_backup_code on the instance it loaded; save
\* (update_fields=['mfa_backup_codes']) writes that instance's list.
BkVerify(w, code) ==
    /\ inst[w] # None
    /\ LET r == verify_backup_code(inst[w][1], code)
       IN  /\ user' = IF r.ret
                      THEN [user EXCEPT !.mfa_backup_codes = r.user.mfa_backup_codes]
                      ELSE user
           /\ res' = [res EXCEPT ![w] =
                        <<[code |-> code, ret |-> r.ret,
                           held |-> CountIn(inst[w][1].mfa_backup_codes, Sha256(code))]>>]
    /\ inst' = [inst EXCEPT ![w] = None]
    /\ UNCHANGED <<bk, bkOther>>

\* One caller after another: load the account and call verify_backup_code.
BkVerifySeq(code) ==
    LET r == verify_backup_code(user, code)
    IN  /\ user' = r.user
        /\ bk' = [bk EXCEPT !.used = IF r.ret THEN @ \cup {code} ELSE @,
                            !.last = [op |-> "verify", code |-> code, ret |-> r.ret,
                                      pre |-> user.mfa_backup_codes, used |-> bk.used]]
        /\ UNCHANGED <<inst, res, bkOther>>

BackupNext ==
    \/ \E draws \in [1..BackupCount -> Codes8] : BkGenerate(draws)
    \/ \E w \in Workers : BkLoad(w)
    \/ \E w \in Workers, code \in Codes8 : BkVerify(w, code)

BackupSeqNext ==
    \/ \E draws \in [1..BackupCount -> Codes8] : BkGenerate(draws)
    \/ \E code \in Codes8 : BkVerifySeq(code)

\* Requests that overlap, each on the instance it loaded.
SpecBackup == BackupInit /\ [][BackupNext]_vars

\* Calls made one after another on the stored row.
SpecBackupSeq == BackupInit /\ [][BackupSeqNext]_vars

\* ------------------------------------------- the lockout methods, called directly

LockInit ==
    /\ now = 0
    /\ user = NewUser
    /\ call = NoCall
    /\ session = [s \in Sessions |-> NoSession]
    /\ otp_ch = NoChallenge("email_verification")
    /\ otp_call = NoOtpCall
    /\ BkIdle
    /\ ViewsIdle

LkIncrement ==
    /\ user.failed_login_attempts < MaxFailed
    /\ user' = increment_failed_login(user, now)
    /\ call' = [op |-> "increment_failed_login", ret |-> FALSE, pre |-> user]
    /\ UNCHANGED <<now, lockOther>>

LkIsLocked ==
    LET r == is_account_locked(user, now)
    IN  /\ user' = r.user
        /\ call' = [op |-> "is_account_locked", ret |-> r.ret, pre |-> user]
        /\ UNCHANGED <<now, lockOther>>

LkReset ==
    /\ user' = reset_failed_logins(user)
    /\ call' = [op |-> "reset_failed_logins", ret |-> FALSE, pre |-> user]
    /\ UNCHANGED <<now, lockOther>>

LkTick ==
    /\ now < MaxTimeLock
    /\ now' = now + 1
    /\ call' = [op |-> "tick", ret |-> FALSE, pre |-> user]
    /\ UNCHANGED <<user, lockOther>>

LockNext == LkIncrement \/ LkIsLocked \/ LkReset \/ LkTick

SpecLock == LockInit /\ [][LockNext]_vars

\* --------------------------- the one-time-code functions, called on one session

OtpSession == "s1"

OtpInit ==
    /\ now = 0
    /\ user = NewUser
    /\ call = NoCall
    /\ session = [s \in Sessions |-> NoSession]
    /\ \E p \in Purposes : otp_ch = NoChallenge(p)
    /\ otp_call = NoOtpCall
    /\ BkIdle
    /\ ViewsIdle

\* generate_otp and store_otp_in_session, as register_view, resend_verification_email
\* and generate_and_send_mfa_otp call them.
OtpIssue(code) ==
    LET sess == session[OtpSession]
        d == store_otp_in_session(Load(sess, now), code, otp_ch.purpose,
                                  IssueExpiry(otp_ch.purpose), now)
    IN  /\ session' = [session EXCEPT ![OtpSession] = Save(sess, d, TRUE, now)]
        /\ otp_ch' = [otp_ch EXCEPT !.code = <<code>>, !.issued_at = now,
                                    !.wrongs = 0, !.verified = FALSE]
        /\ otp_call' = [NoOtpCall EXCEPT !.op = "store"]
        /\ UNCHANGED <<now, otpOther>>

\* verify_otp_from_session with a submitted code.
OtpSubmit(code) ==
    LET sess == session[OtpSession]
        d == Load(sess, now)
        r == verify_otp_from_session(d, code, otp_ch.purpose, now)
        correct == otp_ch.code = <<code>>
    IN  /\ session' = [session EXCEPT ![OtpSession] = Save(sess, r.data, r.data # d, now)]
        /\ otp_ch' = [otp_ch EXCEPT
                        !.wrongs = IF otp_ch.code # None /\ ~correct /\ @ < MaxWrongs
                                   THEN @ + 1 ELSE @,
                        !.verified = @ \/ r.ok]
        /\ otp_call' = [op |-> "verify", ok |-> r.ok, msg |-> r.msg, correct |-> correct,
                        age |-> now - otp_ch.issued_at, wrongs |-> otp_ch.wrongs,
                        verified |-> otp_ch.verified, issued |-> otp_ch.code # None]
        /\ UNCHANGED <<now, otpOther>>

OtpTick ==
    /\ now < MaxTimeOtp
    /\ now' = now + 1
    /\ otp_call' = [NoOtpCall EXCEPT !.op = "tick"]
    /\ UNCHANGED <<session, otp_ch, otpOther>>

OtpNext ==
    \/ \E code \in Codes6 : OtpIssue(code)
    \/ \E code \in Codes6 : OtpSubmit(code)
    \/ OtpTick

SpecOtp == OtpInit /\ [][OtpNext]_vars

\* ------------------------------- failed logins counted by concurrent requests

\* The rows the requests start from: fewer failures than lock the account.
RaceStartUsers ==
    { [NewUser EXCEPT !.email_verified = TRUE, !.failed_login_attempts = n]
      : n \in 0..(LockThresholdShort - 1) }

FailRaceInit ==
    /\ now = 0
    /\ user \in RaceStartUsers
    /\ call = [op |-> "start", ret |-> FALSE, pre |-> user]
    /\ session = [s \in Sessions |-> NoSession]
    /\ otp_ch = NoChallenge("email_verification")
    /\ otp_call = NoOtpCall
    /\ BkIdle
    /\ ViewsIdle

\* login_view: user = get_user_by_identifier(identifier) loads the row.
FrLoad(w) ==
    /\ inst[w] = None
    /\ res[w] = None
    /\ inst' = [inst EXCEPT ![w] = <<user>>]
    /\ UNCHANGED <<now, user, call, res, raceOther>>

\* login_view, failed authentication: user.increment_failed_login() on the
\* instance loaded; save(update_fields) writes its two fields to the row.
FrIncrement(w) ==
    /\ inst[w] # None
    /\ LET u == increment_failed_login(inst[w][1], now)
       IN  user' = [user EXCEPT !.failed_login_attempts = u.failed_login_attempts,
                                !.account_locked_until = u.account_locked_until]
    /\ inst' = [inst EXCEPT ![w] = None]
    /\ res' = [res EXCEPT ![w] = <<[op |-> "increment_failed_login", at |-> now]>>]
    /\ UNCHANGED <<now, call, raceOther>>

FrTick ==
    /\ now < MaxTimeRace
    /\ now' = now + 1
    /\ UNCHANGED <<user, call, inst, res, raceOther>>

FailRaceNext ==
    \/ \E w \in Workers : FrLoad(w)
    \/ \E w \in Workers : FrIncrement(w)
    \/ FrTick

\* Two requests, each failing authentication for the account once.
SpecFailRace == FailRaceInit /\ [][FailRaceNext]_vars

\* --------------------------------------------- the views: requests and helpers

UsernameA == "alice"                \* the account under study: User.username
EmailA == "alice@example.com"       \* User.email
PasswordA == "pwA"                  \* its password
PasswordB == "pwB"                  \* the second account's password; wrong for the first
UnknownEmail == "nobody@example.com"
Identifiers == {UsernameA, EmailA, "nobody"}
Passwords == {PasswordA, PasswordB}
MfaMethods == {"none", "email", "google_authenticator"}

\* get_client_ip(request): each browser session comes from its own address.
get_client_ip(s) == IF s = "s1" THEN "10.0.0.1" ELSE "10.0.0.2"

\* request.META['HTTP_USER_AGENT']
user_agent(s) == IF s = "s1" THEN "Firefox" ELSE "Chrome"

\* generate_device_id: sha256 over the user agent, the address and the accept headers.
generate_device_id(s) == Sha256(user_agent(s) \o "|" \o get_client_ip(s) \o "||")

\* User.objects.filter(Q(username=x) | Q(email=x) | Q(phone_number=x)).first():
\* the first account by primary key; the second account, when present, is younger.
ResolvesToA(identifier) == identifier \in {UsernameA, EmailA}

\* get_user_by_identifier: "A" for the account under study, "" for None.
get_user_by_identifier(identifier) == IF ResolvesToA(identifier) THEN "A" ELSE ""

\* django.contrib.auth.authenticate with AdminAuthBackend (nobody is staff) and
\* ModelBackend: the account whose USERNAME is the given one, if the password
\* matches; "" is None.
authenticate(username, password, al) ==
    IF username = UsernameA /\ password = PasswordA THEN "A"
    ELSE IF al /\ username = EmailA /\ password = PasswordB THEN "B"
    ELSE ""

\* User.requires_mfa
requires_mfa(u) == u.mfa_method # "none" /\ u.email_verified

\* pyotp.TOTP(secret).now(), at the minute t
TotpAt(t) == IF t % 2 = 0 THEN "111111" ELSE "222222"

\* User.verify_totp
verify_totp(u, otp, t) == IF u.totp_secret = "" THEN FALSE ELSE otp = TotpAt(t)

\* User.generate_totp_secret: the row as saved by the call.
generate_totp_secret(u) ==
    IF u.totp_secret = "" THEN [u EXCEPT !.totp_secret = "base32secret"] ELSE u

\* cache.get(cache_key, 0): an entry past its timeout is not there.
cache_get(c, k, t) == IF k \in DOMAIN c /\ t < c[k].exp THEN c[k].n ELSE 0

\* cache.set(key, value, timeout): the entry and its timeout are replaced.
cache_set(c, k, v, timeout_minutes, t) == Put(c, k, [n |-> v, exp |-> t + timeout_minutes])

\* is_rate_limited with the comparison made strict
is_rate_limited_Strict(c, key, max_attempts, t) ==
    cache_get(c, "rate_limit:" \o key, t) > max_attempts

\* is_rate_limited(key, max_attempts)
is_rate_limited(c, key, max_attempts, t) ==
    cache_get(c, "rate_limit:" \o key, t) >= max_attempts

\* increment_rate_limit(key, window_minutes): the cache after cache.set.
increment_rate_limit(c, key, window_minutes, t) ==
    cache_set(c, "rate_limit:" \o key, cache_get(c, "rate_limit:" \o key, t) + 1,
              window_minutes, t)

\* reset_rate_limit(key): the cache after cache.delete.
reset_rate_limit(c, key) == Pop(c, {"rate_limit:" \o key})

\* django.contrib.auth.login: the session key is cycled, the data kept, and the
\* account's id stored under SESSION_KEY.
auth_login(d) == Put(d, "_auth_user_id", "A")

\* request.user.is_authenticated
is_authenticated(d) == Truthy(d, "_auth_user_id")

\* The rows of the account for a device_id, by primary key.
device_rows(dev, id) == {i \in DOMAIN dev : dev[i].device_id = id}

\* TrustedDevice.objects.get_or_create(user, device_id, defaults={..., is_active: True}):
\* an existing row is returned as it is, otherwise one is inserted.
get_or_create_device(dev, id) ==
    IF device_rows(dev, id) # {} THEN dev
    ELSE Append(dev, [device_id |-> id, is_active |-> TRUE, expires_at |-> None])

\* TrustedDevice.is_expired
is_expired(row, t) == row.expires_at # None /\ t > row.expires_at[1]

\* TrustedDevice.objects.filter(user, device_id, is_active=True).exists()
is_trusted(dev, id) == \E i \in device_rows(dev, id) : dev[i].is_active

\* What a view call leaves: the response, the account row, the session data and
\* whether it was modified, the cache, the device rows, the SecurityLog actions
\* and the LoginAttempt rows written.
Resp(result, u, d, modified, c, dev, logged, attempts) ==
    [result |-> result, user |-> u, data |-> d, modified |-> modified,
     cache |-> c, devices |-> dev, logged |-> logged, attempts |-> attempts]

\* EnhancedLoginForm.clean, then AuthenticationForm.clean: whether the form is
\* valid, the error code if not, and the account row (is_account_locked saves).
EnhancedLoginForm_clean_CountsLocked(identifier, password, u, al, t) ==
    LET lk == is_account_locked(u, t)
        u1 == IF ResolvesToA(identifier) THEN lk.user ELSE u
    IN  IF ResolvesToA(identifier) /\ lk.ret
        THEN [valid |-> FALSE, error |-> "account_locked",
              user |-> increment_failed_login(u1, t)]
        ELSE IF authenticate(identifier, password, al) = ""
        THEN [valid |-> FALSE, error |-> "invalid_login", user |-> u1]
        ELSE [valid |-> TRUE, error |-> "", user |-> u1]

EnhancedLoginForm_clean(identifier, password, u, al, t) ==
    LET lk == is_account_locked(u, t)
        u1 == IF ResolvesToA(identifier) THEN lk.user ELSE u
    IN  IF ResolvesToA(identifier) /\ lk.ret
        THEN [valid |-> FALSE, error |-> "account_locked", user |-> u1]
        ELSE IF authenticate(identifier, password, al) = ""
        THEN [valid |-> FALSE, error |-> "invalid_login", user |-> u1]
        ELSE [valid |-> TRUE, error |-> "", user |-> u1]

\* complete_login
complete_login(d, s, u, c, dev, remember_me, t, attempts) ==
    Resp("login",
         [u EXCEPT !.last_login_ip = get_client_ip(s), !.last_login_at = <<t>>],
         Put(auth_login(d), "_session_expiry",
             IF remember_me THEN RememberMinutes ELSE 0),
         TRUE, c, get_or_create_device(dev, generate_device_id(s)),
         {"LOGIN"},
         attempts \o <<[identifier |-> UsernameA, success |-> TRUE]>>)

\* login_view, POST
login_view(d, s, identifier, password, remember_me, u, c, dev, al, t) ==
    LET ipkey == "login_ip:" \o get_client_ip(s)
        idkey == "login_user:" \o identifier
        row == <<[identifier |-> identifier, success |-> FALSE]>>
        f == EnhancedLoginForm_clean(identifier, password, u, al, t)
        lk == is_account_locked(f.user, t)
        u3 == reset_failed_logins(lk.user)
        c3 == reset_rate_limit(c, idkey)
    IN  IF is_authenticated(d) /\ u.email_verified
        THEN Resp("already_logged_in", u, d, FALSE, c, dev, {}, <<>>)
        ELSE IF is_rate_limited(c, ipkey, IpMaxAttempts, t)
        THEN Resp("ip_rate_limited", u, d, FALSE, c, dev, {}, <<>>)
        ELSE IF is_rate_limited(c, idkey, UserMaxAttempts, t)
        THEN Resp("user_rate_limited", u, d, FALSE, c, dev, {}, row)
        ELSE IF ~f.valid
        THEN Resp("form_" \o f.error, f.user, d, FALSE, c, dev, {}, row)
        ELSE IF get_user_by_identifier(identifier) = ""
        THEN Resp("invalid_credentials", f.user, d, FALSE,
                  increment_rate_limit(c, ipkey, RateWindowMinutes, t), dev, {}, row)
        ELSE IF ~f.user.email_verified
        THEN Resp("verify_email_first", f.user,
                  Put(d, "pending_verification_email", EmailA), TRUE, c, dev, {}, row)
        ELSE IF authenticate(UsernameA, password, al) # "A"
        THEN Resp("invalid_credentials", increment_failed_login(f.user, t), d, FALSE,
                  increment_rate_limit(
                      increment_rate_limit(c, idkey, RateWindowMinutes, t),
                      ipkey, RateWindowMinutes, t),
                  dev, {"FAILED_LOGIN"}, row)
        ELSE IF lk.ret
        THEN Resp("account_locked", lk.user, d, FALSE, c, dev, {}, row)
        ELSE IF requires_mfa(u3) /\ ~is_trusted(dev, generate_device_id(s))
        THEN Resp("mfa_required", u3,
                  Put(Put(Put(d, "mfa_user_id", "A"), "mfa_required", TRUE),
                      "_session_expiry", MfaSessionMinutes),
                  TRUE, c3, dev, {}, row)
        ELSE complete_login(d, s, u3, c3, dev, remember_me, t, row)

\* complete_mfa_login
complete_mfa_login(d, s, u, c, dev, t) ==
    Resp("login_mfa",
         [u EXCEPT !.last_login_ip = get_client_ip(s), !.last_login_at = <<t>>],
         auth_login(Pop(d, {"mfa_user_id", "mfa_required", "mfa_otp",
                            "mfa_otp_created_at", "mfa_failed_attempts"})),
         TRUE, c, get_or_create_device(dev, generate_device_id(s)),
         {"LOGIN_MFA"}, <<>>)

\* generate_and_send_mfa_otp: the session data after the call.
generate_and_send_mfa_otp(d, otp, t) ==
    store_otp_in_session(d, otp, "mfa", MfaOtpExpiryMinutes, t)

\* OTPVerificationForm.is_valid: exactly six digits.
OTPVerificationForm_is_valid(code) == Len(code) = 6

\* mfa_verify_view: GET, or POST of a code with or without resend_otp; new_otp
\* is the value generate_otp draws if the view issues a code.
mfa_verify_view(d, s, method, code, resend_otp, new_otp, u, c, dev, t) ==
    LET resend_count == Get(d, "mfa_otp_resend_count", 0)
        v == verify_otp_from_session(d, code, "mfa", t)
        b == verify_backup_code(u, code)
    IN  IF ~Truthy(d, "mfa_required") \/ ~Truthy(d, "mfa_user_id")
        THEN Resp("no_mfa_session", u, d, FALSE, c, dev, {}, <<>>)
        ELSE IF ~u.email_verified
        THEN Resp("verify_email_first", u, d, FALSE, c, dev, {}, <<>>)
        ELSE IF method = "GET"
        THEN IF u.mfa_method = "email" /\ ~Truthy(d, "mfa_otp")
             THEN Resp("form", u, generate_and_send_mfa_otp(d, new_otp, t), TRUE,
                       c, dev, {}, <<>>)
             ELSE Resp("form", u, d, FALSE, c, dev, {}, <<>>)
        ELSE IF resend_otp /\ u.mfa_method = "email"
        THEN IF resend_count >= MfaResendMax
             THEN Resp("resend_max", u, d, FALSE, c, dev, {}, <<>>)
             ELSE Resp("resent", u,
                       Put(generate_and_send_mfa_otp(d, new_otp, t),
                           "mfa_otp_resend_count", resend_count + 1),
                       TRUE, c, dev, {}, <<>>)
        ELSE IF ~OTPVerificationForm_is_valid(code)
        THEN Resp("form_invalid", u, d, FALSE, c, dev, {}, <<>>)
        ELSE IF u.mfa_method = "google_authenticator"
        THEN IF verify_totp(u, code, t)
             THEN complete_mfa_login(d, s, u, c, dev, t)
             ELSE IF b.ret
             THEN complete_mfa_login(d, s, b.user, c, dev, t)
             ELSE Resp("invalid_code", u, d, FALSE, c, dev, {}, <<>>)
        ELSE IF u.mfa_method = "email"
        THEN IF v.ok
             THEN complete_mfa_login(v.data, s, u, c, dev, t)
             ELSE Resp(v.msg, u, v.data, v.data # d, c, dev, {}, <<>>)
        ELSE Resp("form", u, d, FALSE, c, dev, {}, <<>>)

\* email_verification_pending: GET, or POST of a code
email_verification_pending(d, s, method, otp, u, c, dev, t) ==
    LET v == verify_otp_from_session(d, otp, "email_verification", t)
    IN  IF ~Truthy(d, "email_verification_user_id")
        THEN Resp("no_pending_verification", u, d, FALSE, c, dev, {}, <<>>)
        ELSE IF u.email_verified
        THEN Resp("already_verified_login", u,
                  auth_login(clear_otp_session(d, "email_verification")),
                  TRUE, c, dev, {}, <<>>)
        ELSE IF method = "GET"
        THEN Resp("form", u, d, FALSE, c, dev, {}, <<>>)
        ELSE IF v.ok
        THEN Resp("email_verified", [u EXCEPT !.email_verified = TRUE],
                  auth_login(clear_otp_session(v.data, "email_verification")),
                  TRUE, c, dev, {"EMAIL_VERIFIED"}, <<>>)
        ELSE Resp(v.msg, u, v.data, v.data # d, c, dev, {}, <<>>)

\* resend_verification_email, POST of an email address
resend_verification_email(d, s, email, new_otp, u, c, dev, t) ==
    LET key == "resend_verification:" \o email
    IN  IF is_authenticated(d) /\ u.email_verified
        THEN Resp("already_logged_in", u, d, FALSE, c, dev, {}, <<>>)
        ELSE IF is_rate_limited(c, key, ResendMaxAttempts, t)
        THEN Resp("resend_rate_limited", u, d, FALSE, c, dev, {}, <<>>)
        ELSE IF email # EmailA
        THEN Resp("generic_sent", u, d, FALSE, c, dev, {}, <<>>)
        ELSE IF u.email_verified
        THEN Resp("already_verified", u, d, FALSE, c, dev, {}, <<>>)
        ELSE Resp("sent", u,
                  Put(Put(store_otp_in_session(d, new_otp, "email_verification",
                                               EmailOtpExpiryMinutes, t),
                          "email_verification_user_id", "A"),
                      "email_verification_email", EmailA),
                  TRUE, increment_rate_limit(c, key, RateWindowMinutes, t),
                  dev, {}, <<>>)

\* select_mfa_method, POST of a method by a logged-in user; draws are the values
\* generate_backup_codes draws if the method is google_authenticator.
select_mfa_method(d, s, method, draws, u, c, dev, t) ==
    LET u1 == [u EXCEPT !.mfa_method = method]
    IN  IF ~is_authenticated(d)
        THEN Resp("login_required", u, d, FALSE, c, dev, {}, <<>>)
        ELSE IF ~u.email_verified
        THEN Resp("verify_email_first", u, d, FALSE, c, dev, {}, <<>>)
        ELSE IF method = "google_authenticator"
        THEN Resp("setup_authenticator",
                  generate_backup_codes(generate_totp_secret(u1), draws),
                  Put(d, "backup_codes", draws), TRUE, c, dev, {"MFA_ENABLED"}, <<>>)
        ELSE IF method = "email"
        THEN Resp("mfa_enabled", u1, d, FALSE, c, dev, {"MFA_ENABLED"}, <<>>)
        ELSE Resp("mfa_disabled", u1, d, FALSE, c, dev, {"MFA_DISABLED"}, <<>>)

\* logout_view, POST: logout() flushes the session.
logout_view(d, s, u, c, dev, t) ==
    IF ~is_authenticated(d)
    THEN Resp("login_required", u, d, FALSE, c, dev, {}, <<>>)
    ELSE Resp("logged_out", u, EmptyData, TRUE, c, dev, {"LOGOUT"}, <<>>)

\* remove_device, POST by a logged-in user for one of the rows
remove_device(d, s, id, u, c, dev, t) ==
    IF ~is_authenticated(d)
    THEN Resp("login_required", u, d, FALSE, c, dev, {}, <<>>)
    ELSE IF id \notin DOMAIN dev
    THEN Resp("device_not_found", u, d, FALSE, c, dev, {}, <<>>)
    ELSE Resp("device_removed", u, d, FALSE, c,
              [dev EXCEPT ![id].is_active = FALSE], {"DEVICE_REMOVED"}, <<>>)

\* What the login page shows for a response of login_view: the text passed to
\* messages.error and the code of the form error rendered with it.
login_message(result) ==
    IF result = "invalid_credentials"
    THEN <<"Invalid credentials. Please try again.", "">>
    ELSE IF result = "form_invalid_login"
    THEN <<"Please correct the errors below.", "invalid_login">>
    ELSE IF result = "form_account_locked"
    THEN <<"Please correct the errors below.", "account_locked">>
    ELSE IF result = "account_locked"
    THEN <<"Account temporarily locked due to too many failed login attempts. Try again later or reset your password.", "">>
    ELSE IF result = "user_rate_limited"
    THEN <<"Too many failed login attempts for this account. Please wait 15 minutes.", "">>
    ELSE IF result = "ip_rate_limited"
    THEN <<"Too many login attempts from this IP. Please try again later.", "">>
    ELSE IF result = "verify_email_first"
    THEN <<"Please verify your email before logging in. Check your inbox or request a new verification code.", "">>
    ELSE <<"", "">>

\* ----------------------------------------------------- the views as actions

\* The draws generate_backup_codes makes when the views are followed.
SetupDraws == {[i \in 1..BackupCount |-> IF i = 1 THEN "11111111" ELSE "22222222"]}

\* The value generate_otp draws when the views are followed.
OtpDraws == {"111111"}

\* The six- and eight-digit codes a client submits.
Submitted == Codes6 \cup {"11111111"}

\* The account rows the views start from: registered and not yet verified, or
\* verified with one of the MFA methods set up.
InitUsers ==
    { NewUser,
      [NewUser EXCEPT !.email_verified = TRUE],
      [NewUser EXCEPT !.email_verified = TRUE, !.mfa_method = "email"] }
    \cup { generate_backup_codes(
               generate_totp_secret(
                   [NewUser EXCEPT !.email_verified = TRUE,
                                   !.mfa_method = "google_authenticator"]), dr)
           : dr \in SetupDraws }

\* register_view, POST of a valid form from browser session s1 at time 0: the
\* session and the cache it leaves (new_otp is the value generate_otp draws).
RegisteredSession(new_otp) ==
    Save(NoSession,
         Put(Put(store_otp_in_session(EmptyData, new_otp, "email_verification",
                                      EmailOtpExpiryMinutes, 0),
                 "email_verification_user_id", "A"),
             "email_verification_email", EmailA),
         TRUE, 0)

RegisteredCache ==
    increment_rate_limit(EmptyData, "register_ip:" \o get_client_ip("s1"),
                         RegisterWindowMinutes, 0)

\* Either the account has just been registered from s1, or it was registered
\* and set up before and no session or counter of that time is left.
Init ==
    /\ now = 0
    /\ user \in InitUsers
    /\ alias \in BOOLEAN
    /\ \/ /\ user = NewUser
          /\ \E new_otp \in OtpDraws :
                session = [s \in Sessions |->
                             IF s = "s1" THEN RegisteredSession(new_otp) ELSE NoSession]
          /\ cache = RegisteredCache
          /\ last = [op |-> "register", s |-> "s1", result |-> "registered",
                     logged |-> {"REGISTER"}, attempts |-> <<>>]
       \/ /\ session = [s \in Sessions |-> NoSession]
          /\ cache = EmptyData
          /\ last = NoLast
    /\ devices = <<>>
    /\ streak = NoStreak
    /\ calls = 0
    /\ call = NoCall
    /\ otp_ch = NoChallenge("email_verification")
    /\ otp_call = NoOtpCall
    /\ BkIdle

\* The state a view call leaves, from its response record.
ApplyWithin(s, r, op, budget) ==
    /\ calls < budget
    /\ calls' = calls + 1
    /\ user' = r.user
    /\ session' = [session EXCEPT ![s] = Save(@, r.data, r.modified, now)]
    /\ cache' = r.cache
    /\ devices' = r.devices
    /\ last' = [op |-> op, s |-> s, result |-> r.result, logged |-> r.logged,
                attempts |-> r.attempts]
    /\ UNCHANGED <<now, alias, viewsOther>>

Apply(s, r, op) == ApplyWithin(s, r, op, MaxCalls)

\* No login counter is held in the cache and the account has no failure on record.
CleanAccount ==
    /\ user.failed_login_attempts = 0
    /\ user.account_locked_until = None
    /\ cache_get(cache, "rate_limit:login_user:" \o UsernameA, now) = 0
    /\ cache_get(cache, "rate_limit:login_user:" \o EmailA, now) = 0
    /\ \A s \in Sessions :
           cache_get(cache, "rate_limit:login_ip:" \o get_client_ip(s), now) = 0

\* The streak after a login POST.
NextStreak(s, identifier, password) ==
    IF ResolvesToA(identifier) /\ password # PasswordA
       /\ ~is_authenticated(Load(session[s], now))
    THEN IF /\ streak.n \in 1..(UserMaxAttempts - 1)
            /\ streak.identifier = identifier
            /\ streak.s = s
            /\ now - streak.start < RateWindowMinutes
         THEN [streak EXCEPT !.n = @ + 1, !.at = now]
         ELSE IF CleanAccount
         THEN [n |-> 1, identifier |-> identifier, s |-> s, start |-> now, at |-> now]
         ELSE NoStreak
    ELSE NoStreak

LoginPost(s, identifier, password, remember_me) ==
    /\ Apply(s, login_view(Load(session[s], now), s, identifier, password, remember_me,
                           user, cache, devices, alias, now),
             "login")
    /\ streak' = NoStreak

\* The same POST, with the streak of wrong-password POSTs counted.
LoginPostCounted(s, identifier, password, remember_me) ==
    /\ ApplyWithin(s, login_view(Load(session[s], now), s, identifier, password,
                                 remember_me, user, cache, devices, alias, now),
                   "login", MaxLoginCalls)
    /\ streak' = NextStreak(s, identifier, password)

MfaVerifyGet(s, new_otp) ==
    /\ Apply(s, mfa_verify_view(Load(session[s], now), s, "GET", "", FALSE, new_otp,
                                user, cache, devices, now),
             "mfa_verify_get")
    /\ streak' = NoStreak

MfaVerifyPost(s, code) ==
    /\ Apply(s, mfa_verify_view(Load(session[s], now), s, "POST", code, FALSE, "",
                                user, cache, devices, now),
             "mfa_verify")
    /\ streak' = NoStreak

\* The same view, POSTed with resend_otp.
MfaResendPost(s, code, new_otp) ==
    /\ Apply(s, mfa_verify_view(Load(session[s], now), s, "POST", code, TRUE, new_otp,
                                user, cache, devices, now),
             "mfa_resend")
    /\ streak' = NoStreak

EmailVerificationGet(s) ==
    /\ Apply(s, email_verification_pending(Load(session[s], now), s, "GET", "",
                                           user, cache, devices, now),
             "email_verification_get")
    /\ streak' = NoStreak

EmailVerificationPost(s, otp) ==
    /\ Apply(s, email_verification_pending(Load(session[s], now), s, "POST", otp,
                                           user, cache, devices, now),
             "email_verification")
    /\ streak' = NoStreak

ResendVerificationPost(s, email, new_otp) ==
    /\ Apply(s, resend_verification_email(Load(session[s], now), s, email, new_otp,
                                          user, cache, devices, now),
             "resend_verification")
    /\ streak' = NoStreak

SelectMfaMethodPost(s, method, draws) ==
    /\ Apply(s, select_mfa_method(Load(session[s], now), s, method, draws,
                                  user, cache, devices, now),
             "select_mfa_method")
    /\ streak' = NoStreak

LogoutPost(s) ==
    /\ Apply(s, logout_view(Load(session[s], now), s, user, cache, devices, now),
             "logout")
    /\ streak' = NoStreak

\* The primary keys a remove_device POST may name.
DevicePks == 1..Cardinality(Sessions)

RemoveDevice(s, id) ==
    /\ Apply(s, remove_device(Load(session[s], now), s, id, user, cache, devices, now),
             "remove_device")
    /\ streak' = NoStreak

\* Time passes.  Cache entries past their timeout and session rows past their
\* expire_date are never read again and are dropped here.
Tick ==
    /\ now < MaxTime
    /\ now' = now + TickMinutes
    /\ cache' = [k \in {x \in DOMAIN cache : now' < cache[x].exp} |-> cache[k]]
    /\ session' = [s \in Sessions |->
                     IF Load(session[s], now') = EmptyData THEN NoSession ELSE session[s]]
    /\ UNCHANGED <<user, alias, devices, last, streak, calls, viewsOther>>

Next ==
    \/ \E s \in Sessions, identifier \in Identifiers, password \in Passwords,
          remember_me \in BOOLEAN : LoginPost(s, identifier, password, remember_me)
    \/ \E s \in Sessions, new_otp \in OtpDraws : MfaVerifyGet(s, new_otp)
    \/ \E s \in Sessions, code \in Submitted : MfaVerifyPost(s, code)
    \/ \E s \in Sessions, new_otp \in OtpDraws : MfaResendPost(s, "111111", new_otp)
    \/ \E s \in Sessions : EmailVerificationGet(s)
    \/ \E s \in Sessions, otp \in Codes6 : EmailVerificationPost(s, otp)
    \/ \E s \in Sessions, email \in {EmailA, UnknownEmail}, new_otp \in OtpDraws :
          ResendVerificationPost(s, email, new_otp)
    \/ \E s \in Sessions, method \in MfaMethods, draws \in SetupDraws :
          SelectMfaMethodPost(s, method, draws)
    \/ \E s \in Sessions : LogoutPost(s)
    \/ \E s \in Sessions, id \in DevicePks : RemoveDevice(s, id)
    \/ Tick

\* The login, MFA and email-verification views called from two browsers.
Spec == Init /\ [][Next]_vars

StreakNext ==
    \/ \E s \in Sessions, identifier \in Identifiers, password \in Passwords,
          remember_me \in BOOLEAN : LoginPostCounted(s, identifier, password, remember_me)
    \/ Tick

\* Login POSTs only, with the wrong-password POSTs made in a row counted.
SpecLoginStreak == Init /\ [][StreakNext]_vars

\* A login POST with the account's password, under the name or the email.
CorrectLoginPost(s, identifier, remember_me) ==
    /\ ApplyWithin(s, login_view(Load(session[s], now), s, identifier, PasswordA,
                                 remember_me, user, cache, devices, alias, now),
                   "login_correct_password", MaxLoginCalls)
    /\ streak' = NoStreak

\* A login POST with another password.
WrongLoginPost(s, identifier, remember_me) ==
    /\ ApplyWithin(s, login_view(Load(session[s], now), s, identifier, PasswordB,
                                 remember_me, user, cache, devices, alias, now),
                   "login", MaxLoginCalls)
    /\ streak' = NextStreak(s, identifier, PasswordB)

LockedLoginNext ==
    \/ \E s \in Sessions, identifier \in Identifiers, remember_me \in BOOLEAN :
          WrongLoginPost(s, identifier, remember_me)
    \/ \E s \in Sessions, identifier \in {UsernameA, EmailA}, remember_me \in BOOLEAN :
          CorrectLoginPost(s, identifier, remember_me)
    \/ Tick

\* Login POSTs only, those with the right password told from the others.
SpecLockedLogin == Init /\ [][LockedLoginNext]_vars

\* ------------------------------------------------- device trust, end to end

\* The values the admin form of a TrustedDevice row may give to expires_at.
ExpiresAtChoices == {None, <<0>>}

TrustInit ==
    /\ now = 0
    /\ user \in {u \in InitUsers : u.email_verified}
    /\ inst = [w \in Workers |-> None]
    /\ res = [w \in Workers |-> None]
    /\ alias = FALSE
    /\ session = [s \in Sessions |-> NoSession]
    /\ cache = EmptyData
    /\ last = NoLast
    /\ devices = <<>>
    /\ streak = NoStreak
    /\ calls = 0
    /\ call = NoCall
    /\ otp_ch = NoChallenge("email_verification")
    /\ otp_call = NoOtpCall
    /\ BkIdle

\* A login POST with the account's username and password.
TrLoginPost(s, remember_me) ==
    /\ ApplyWithin(s, login_view(Load(session[s], now), s, UsernameA, PasswordA,
                                 remember_me, user, cache, devices, alias, now),
                   "login", MaxTrustCalls)
    /\ streak' = NoStreak

TrMfaVerifyGet(s, new_otp) ==
    /\ ApplyWithin(s, mfa_verify_view(Load(session[s], now), s, "GET", "", FALSE, new_otp,
                                      user, cache, devices, now),
                   "mfa_verify_get", MaxTrustCalls)
    /\ streak' = NoStreak

TrMfaVerifyPost(s, code) ==
    /\ ApplyWithin(s, mfa_verify_view(Load(session[s], now), s, "POST", code, FALSE, "",
                                      user, cache, devices, now),
                   "mfa_verify", MaxTrustCalls)
    /\ streak' = NoStreak

\* The same view, POSTed with resend_otp.
TrMfaResendPost(s, new_otp) ==
    /\ ApplyWithin(s, mfa_verify_view(Load(session[s], now), s, "POST", "111111", TRUE,
                                      new_otp, user, cache, devices, now),
                   "mfa_resend", MaxTrustCalls)
    /\ streak' = NoStreak

TrLogoutPost(s) ==
    /\ ApplyWithin(s, logout_view(Load(session[s], now), s, user, cache, devices, now),
                   "logout", MaxTrustCalls)
    /\ streak' = NoStreak

TrRemoveDevice(s, id) ==
    /\ ApplyWithin(s, remove_device(Load(session[s], now), s, id, user, cache, devices, now),
                   "remove_device", MaxTrustCalls)
    /\ streak' = NoStreak

\* A staff user saves a row in TrustedDeviceAdmin: is_active and expires_at
\* are the editable fields of its Status fieldset.
AdminChangeDevice(id, is_active, expires_at) ==
    /\ calls < MaxTrustCalls
    /\ id \in DOMAIN devices
    /\ calls' = calls + 1
    /\ devices' = [devices EXCEPT ![id].is_active = is_active,
                                  ![id].expires_at = expires_at]
    /\ last' = [op |-> "admin_change_device", s |-> "", result |-> "saved",
                logged |-> {}, attempts |-> <<>>]
    /\ streak' = NoStreak
    /\ UNCHANGED <<now, user, session, cache, alias, viewsOther>>

TrustNext ==
    \/ \E s \in Sessions, remember_me \in BOOLEAN : TrLoginPost(s, remember_me)
    \/ \E s \in Sessions, new_otp \in OtpDraws : TrMfaVerifyGet(s, new_otp)
    \/ \E s \in Sessions, code \in Codes6 : TrMfaVerifyPost(s, code)
    \/ \E s \in Sessions, new_otp \in OtpDraws : TrMfaResendPost(s, new_otp)
    \/ \E s \in Sessions : TrLogoutPost(s)
    \/ \E s \in Sessions, id \in DevicePks : TrRemoveDevice(s, id)
    \/ \E id \in DevicePks, is_active \in BOOLEAN, expires_at \in ExpiresAtChoices :
          AdminChangeDevice(id, is_active, expires_at)
    \/ Tick

\* Correct-password logins, MFA completions, device removals and admin edits
\* of the device rows, from two browsers.
SpecDeviceTrust == TrustInit /\ [][TrustNext]_vars

\* ------------------------------------------------ the rate limiter on its own

RateKeys == {"login_user:" \o UsernameA, "login_ip:10.0.0.1"}

\* The calls made for a key since it was last reset: how many
\* increment_rate_limit calls, and when the first of them was made.
NoIncrements == [n |-> 0, first |-> 0]

RateIdle ==
    /\ user = NewUser
    /\ session = [s \in Sessions |-> NoSession]
    /\ otp_ch = NoChallenge("email_verification")
    /\ otp_call = NoOtpCall
    /\ BkIdle
    /\ alias = FALSE
    /\ devices = <<>>
    /\ streak = NoStreak
    /\ calls = 0

RateInit ==
    /\ now = 0
    /\ cache = EmptyData
    /\ call = [key \in RateKeys |-> NoIncrements]
    /\ last = NoLast
    /\ RateIdle

RlIncrement(key) ==
    /\ call[key].n < MaxIncrements
    /\ cache' = increment_rate_limit(cache, key, RateWindowMinutes, now)
    /\ call' = [call EXCEPT ![key] = IF @.n = 0 THEN [n |-> 1, first |-> now]
                                     ELSE [@ EXCEPT !.n = @ + 1]]
    /\ last' = [NoLast EXCEPT !.op = "increment_rate_limit", !.s = key]
    /\ UNCHANGED <<now, inst, res, rateOther>>

RlReset(key) ==
    /\ cache' = reset_rate_limit(cache, key)
    /\ call' = [call EXCEPT ![key] = NoIncrements]
    /\ last' = [NoLast EXCEPT !.op = "reset_rate_limit", !.s = key,
                              !.result = IF is_rate_limited(cache, key, UserMaxAttempts, now)
                                         THEN "was_limited" ELSE "was_not_limited"]
    /\ UNCHANGED <<now, inst, res, rateOther>>

\* Time passes; entries past their timeout are dropped.
RlTick ==
    /\ now < MaxTimeRate
    /\ now' = now + TickMinutes
    /\ cache' = [k \in {x \in DOMAIN cache : now' < cache[x].exp} |-> cache[k]]
    /\ UNCHANGED <<call, last, inst, res, rateOther>>

RateNext ==
    \/ \E key \in RateKeys : RlIncrement(key)
    \/ \E key \in RateKeys : RlReset(key)
    \/ RlTick

\* increment_rate_limit and reset_rate_limit called one after another.
SpecRate == RateInit /\ [][RateNext]_vars

\* Two requests inside increment_rate_limit(key) at once: each does its
\* cache.get and, later, its cache.set.
RaceKey == "login_ip:10.0.0.1"

RateRaceInit ==
    /\ now = 0
    /\ \E n \in 0..(UserMaxAttempts - 1) :
          /\ cache = IF n = 0 THEN EmptyData
                     ELSE cache_set(EmptyData, "rate_limit:" \o RaceKey, n,
                                    RateWindowMinutes, 0)
          /\ call = [key \in RateKeys |-> [n |-> n, first |-> 0]]
    /\ last = NoLast
    /\ inst = [w \in Workers |-> None]
    /\ res = [w \in Workers |-> None]
    /\ RateIdle

RrGet(w) ==
    /\ inst[w] = None
    /\ res[w] = None
    /\ inst' = [inst EXCEPT ![w] = <<cache_get(cache, "rate_limit:" \o RaceKey, now)>>]
    /\ UNCHANGED <<now, cache, call, last, res, rateOther>>

RrSet(w) ==
    /\ inst[w] # None
    /\ cache' = cache_set(cache, "rate_limit:" \o RaceKey, inst[w][1] + 1,
                          RateWindowMinutes, now)
    /\ inst' = [inst EXCEPT ![w] = None]
    /\ res' = [res EXCEPT ![w] = <<[op |-> "increment_rate_limit", ret |-> inst[w][1] + 1]>>]
    /\ UNCHANGED <<now, call, last, rateOther>>

RrTick ==
    /\ now < MaxTimeRace
    /\ now' = now + 1
    /\ UNCHANGED <<cache, call, last, inst, res, rateOther>>

RateRaceNext ==
    \/ \E w \in Workers : RrGet(w)
    \/ \E w \in Workers : RrSet(w)
    \/ RrTick

SpecRateRace == RateRaceInit /\ [][RateRaceNext]_vars

\* ------------------------------------------------------ signed link tokens
\* Strings are sequences of one-character strings; the clock counts hours and
\* a timestamp is the hour count.

ExpirationHours == 24

TokenEmails == {"a@b.com", "A@B.com", "c@d.com"}

\* str.lower
lower(email) == IF email = "A@B.com" THEN "a@b.com" ELSE email

\* The characters a token string is made of here.
TokenChars == {"0", "8", "a", "c", "f", ":", "x"}

DigitChars == <<"0", "1", "2", "3", "4", "5", "6", "7", "8", "9">>

IsDigit(ch) == \E i \in 1..10 : DigitChars[i] = ch

DigitValue(ch) == (CHOOSE i \in 1..10 : DigitChars[i] = ch) - 1

\* str(int(...)) of a non-negative number
RECURSIVE str(_)
str(n) == IF n < 10 THEN <<DigitChars[n + 1]>>
          ELSE str(n \div 10) \o <<DigitChars[(n % 10) + 1]>>

\* int(timestamp) succeeds: a non-empty string of digits
IsInt(chars) == Len(chars) > 0 /\ \A i \in 1..Len(chars) : IsDigit(chars[i])

RECURSIVE int(_)
int(chars) == IF Len(chars) = 0 THEN 0
              ELSE 10 * int(SubSeq(chars, 1, Len(chars) - 1))
                   + DigitValue(chars[Len(chars)])

\* hmac.new(SECRET_KEY, f"{email}:{timestamp}", sha256).hexdigest(): a keyed
\* digest, different for different messages.
hexdigest(email, timestamp) ==
    <<IF email = "a@b.com" THEN "a" ELSE "c">> \o timestamp \o <<"f">>

\* generate_verification_token(email), called at hour t
generate_verification_token(email, t) ==
    hexdigest(lower(email), str(t)) \o <<":">> \o str(t)

\* The positions of ':' in a string
Colons(chars) == {i \in 1..Len(chars) : chars[i] = ":"}

\* verify_token without the expiry check
verify_token_NoExpiry(token_string, email, t) ==
    IF Cardinality(Colons(token_string)) # 1 THEN FALSE
    ELSE LET i == CHOOSE j \in Colons(token_string) : TRUE
             token == SubSeq(token_string, 1, i - 1)
             timestamp == SubSeq(token_string, i + 1, Len(token_string))
         IN  IF ~IsInt(timestamp) THEN FALSE
             ELSE token = hexdigest(lower(email), timestamp)

\* verify_token(token_string, email): split(':') into exactly two parts, int()
\* of the timestamp, the expiry check, then compare_digest; every exception
\* is caught and answered with False.
verify_token(token_string, email, t) ==
    IF Cardinality(Colons(token_string)) # 1 THEN FALSE
    ELSE LET i == CHOOSE j \in Colons(token_string) : TRUE
             token == SubSeq(token_string, 1, i - 1)
             timestamp == SubSeq(token_string, i + 1, Len(token_string))
         IN  IF ~IsInt(timestamp) THEN FALSE
             ELSE IF t - int(timestamp) > ExpirationHours THEN FALSE
             ELSE token = hexdigest(lower(email), timestamp)

\* The string with its i-th character replaced by ch.
Flip(chars, i, ch) == [chars EXCEPT ![i] = ch]

\* Malformed token strings made from a token: nothing at all, no separator,
\* two separators, an empty timestamp, a timestamp that is not a number.
MalformedSeq(chars) ==
    << <<>>,
       SelectSeq(chars, LAMBDA ch : ch # ":"),
       chars \o <<":">> \o <<"0">>,
       SubSeq(chars, 1, CHOOSE j \in Colons(chars) : TRUE),
       chars \o <<"x">> >>

Malformed(chars) == {MalformedSeq(chars)[m] : m \in 1..5}

NoToken == [op |-> "none", email |-> "", token |-> <<>>, at |-> 0]

TokenInit ==
    /\ now = 0
    /\ call = NoToken
    /\ last = NoLast
    /\ cache = EmptyData
    /\ inst = [w \in Workers |-> None]
    /\ res = [w \in Workers |-> None]
    /\ RateIdle

TkGenerate(email) ==
    /\ call' = [op |-> "generate_verification_token", email |-> email,
                token |-> generate_verification_token(email, now), at |-> now]
    /\ last' = NoLast
    /\ UNCHANGED <<now, cache, inst, res, rateOther>>

\* The token string submitted: the one made, it with its i-th character
\* changed to ch, or the i-th malformed one.
Submission(kind, i, ch) ==
    IF kind = "token" THEN call.token
    ELSE IF kind = "changed" THEN Flip(call.token, i, ch)
    ELSE MalformedSeq(call.token)[i]

\* verify_token is called with a token string and an email.
TkVerify(kind, i, ch, email) ==
    /\ call.op = "generate_verification_token"
    /\ kind = "token" => i = 1 /\ ch = "0"
    /\ kind = "changed" => i <= Len(call.token)
    /\ kind = "malformed" => i <= 5 /\ ch = "0"
    /\ last' = [NoLast EXCEPT !.op = "verify_token", !.s = email,
                              !.attempts = Submission(kind, i, ch),
                              !.result = IF verify_token(Submission(kind, i, ch), email, now)
                                         THEN "True" ELSE "False"]
    /\ UNCHANGED <<now, call, cache, inst, res, rateOther>>

TkTick ==
    /\ now < MaxTokenTime
    /\ now' = now + TokenTickHours
    /\ last' = NoLast
    /\ UNCHANGED <<call, cache, inst, res, rateOther>>

TokenNext ==
    \/ \E email \in TokenEmails : TkGenerate(email)
    \/ \E kind \in {"token", "changed", "malformed"}, i \in 1..MaxTokenLen,
          ch \in TokenChars, email \in TokenEmails : TkVerify(kind, i, ch, email)
    \/ TkTick

SpecToken == TokenInit /\ [][TokenNext]_vars

\* ------------------------------------------- SecurityLog writes that fail

\* log_security_event letting the exception of the write out
log_security_event_Propagates(actions, write_raises) ==
    [raised |-> write_raises /\ actions # {},
     written |-> IF write_raises THEN {} ELSE actions]

\* log_security_event(user, action, request): SecurityLog.objects.create inside
\* try / except Exception.  actions are the events the calling view records;
\* written are the rows left, raised whether the caller sees an exception.
log_security_event(actions, write_raises) ==
    [raised |-> FALSE,
     written |-> IF write_raises THEN {} ELSE actions]

\* The response r of a view whose log_security_event calls meet a SecurityLog
\* table whose writes raise or not.  An exception leaving the view is answered
\* with a server error, and SessionMiddleware does not save the session then.
WithLog(r, d, write_raises) ==
    LET l == log_security_event(r.logged, write_raises)
    IN  IF l.raised
        THEN [r EXCEPT !.result = "server_error", !.data = d, !.modified = FALSE,
                       !.logged = {}]
        ELSE [r EXCEPT !.logged = l.written]

\* register_view, POST of a valid form for the account from browser session s
\* (u is the account the session is logged in as, if it is).
register_view(d, s, new_otp, u, c, dev, t) ==
    IF is_authenticated(d) /\ u.email_verified
    THEN Resp("already_logged_in", u, d, FALSE, c, dev, {}, <<>>)
    ELSE IF is_rate_limited(c, "register_ip:" \o get_client_ip(s), RegisterMaxAttempts, t)
    THEN Resp("register_rate_limited", NewUser, d, FALSE, c, dev, {}, <<>>)
    ELSE Resp("registered", NewUser,
              Put(Put(store_otp_in_session(d, new_otp, "email_verification",
                                           EmailOtpExpiryMinutes, t),
                      "email_verification_user_id", "A"),
                  "email_verification_email", EmailA),
              TRUE,
              increment_rate_limit(c, "register_ip:" \o get_client_ip(s),
                                   RegisterWindowMinutes, t),
              dev, {"REGISTER"}, <<>>)

LfLoginPost(s, identifier, password, write_raises) ==
    /\ Apply(s, WithLog(login_view(Load(session[s], now), s, identifier, password, FALSE,
                                   user, cache, devices, alias, now),
                        Load(session[s], now), write_raises),
             "login")
    /\ streak' = NoStreak

LfMfaVerifyPost(s, code, write_raises) ==
    /\ Apply(s, WithLog(mfa_verify_view(Load(session[s], now), s, "POST", code, FALSE, "",
                                        user, cache, devices, now),
                        Load(session[s], now), write_raises),
             "mfa_verify")
    /\ streak' = NoStreak

LfEmailVerificationPost(s, otp, write_raises) ==
    /\ Apply(s, WithLog(email_verification_pending(Load(session[s], now), s, "POST", otp,
                                                   user, cache, devices, now),
                        Load(session[s], now), write_raises),
             "email_verification")
    /\ streak' = NoStreak

LfLogoutPost(s, write_raises) ==
    /\ Apply(s, WithLog(logout_view(Load(session[s], now), s, user, cache, devices, now),
                        Load(session[s], now), write_raises),
             "logout")
    /\ streak' = NoStreak

LogFaultNext ==
    \/ \E s \in Sessions, identifier \in Identifiers, password \in Passwords,
          write_raises \in BOOLEAN : LfLoginPost(s, identifier, password, write_raises)
    \/ \E s \in Sessions, new_otp \in OtpDraws : MfaVerifyGet(s, new_otp)
    \/ \E s \in Sessions, code \in Submitted, write_raises \in BOOLEAN :
          LfMfaVerifyPost(s, code, write_raises)
    \/ \E s \in Sessions, otp \in Codes6, write_raises \in BOOLEAN :
          LfEmailVerificationPost(s, otp, write_raises)
    \/ \E s \in Sessions, write_raises \in BOOLEAN : LfLogoutPost(s, write_raises)
    \/ Tick

\* The login, MFA, email-verification and logout views with a SecurityLog
\* table whose writes may raise.
SpecLogFault == Init /\ [][LogFaultNext]_vars

\* ------------------------------------------------------------------ claims

\* C4: right after increment_failed_login has brought the counter to 1 or 2
\* the account is not locked; at 3 or 4 it is locked until the time of that
\* failure plus 5 minutes; at 5 or more until that time plus 30 minutes.
C4_LockoutEscalation ==
    call.op = "increment_failed_login" =>
        LET n == user.failed_login_attempts
        IN  /\ n = call.pre.failed_login_attempts + 1
            /\ n \in {1, 2} =>
                   /\ user.account_locked_until = None
                   /\ ~is_account_locked(user, now).ret
            /\ n \in {3, 4} =>
                   /\ user.account_locked_until = <<now + 5>>
                   /\ is_account_locked(user, now).ret
            /\ n >= 5 =>
                   /\ user.account_locked_until = <<now + 30>>
                   /\ is_account_locked(user, now).ret

C4_Witness ==
    /\ call.op = "increment_failed_login"
    /\ user.failed_login_attempts = 6
    /\ call.pre.account_locked_until # None
    /\ user.account_locked_until = <<now + 30>>
    /\ now > 0

\* C5: once the lock expiry is in the past, the first is_account_locked call
\* returns false and stores counter 0 and expiry null; a second call made at
\* once returns false and changes nothing.
C5_LazyUnlock ==
    ( /\ call.op = "is_account_locked"
      /\ call.pre.account_locked_until # None
      /\ call.pre.account_locked_until[1] < now ) =>
        /\ call.ret = FALSE
        /\ user.failed_login_attempts = 0
        /\ user.account_locked_until = None
        /\ is_account_locked(user, now).ret = FALSE
        /\ is_account_locked(user, now).user = user

C5_Witness ==
    /\ call.op = "is_account_locked"
    /\ call.pre.account_locked_until # None
    /\ call.pre.account_locked_until[1] < now
    /\ call.pre.failed_login_attempts >= 5
    /\ user.failed_login_attempts = 0

\* The window the specification gives each purpose: 10 minutes for an
\* email-verification code, 5 minutes for an MFA code.
ClaimedWindow(purpose) == IF purpose = "mfa" THEN 5 ELSE 10

\* The challenge is still held by the session a request would load now.
ChallengeHeld ==
    Truthy(Load(session[OtpSession], now), otp_key(otp_ch.purpose))

\* C6: once 5 wrong codes have been submitted against an issued challenge the
\* challenge is gone from the session, and no submission verifies against a
\* challenge that has already met 5 wrong codes, the correct code included.
C6_OtpExhaustion ==
    /\ otp_ch.wrongs >= 5 => ~ChallengeHeld
    /\ (otp_call.op = "verify" /\ otp_call.wrongs >= 5) => ~otp_call.ok
    /\ (otp_call.op = "verify" /\ otp_call.ok) => otp_call.issued

C6_Witness ==
    /\ otp_call.op = "verify"
    /\ otp_call.correct
    /\ otp_call.wrongs = 5
    /\ otp_call.age = 0
    /\ otp_call.msg = "no_otp"

\* C7: a correct code submitted after the purpose's window has elapsed since
\* issue (10 minutes email verification, 5 minutes MFA) never verifies and
\* leaves no challenge in the session.
C7_OtpExpiry ==
    ( /\ otp_call.op = "verify"
      /\ otp_call.correct
      /\ otp_call.age > ClaimedWindow(otp_ch.purpose) ) =>
        /\ ~otp_call.ok
        /\ ~ChallengeHeld

\* The email-verification half of C7 alone: past 10 minutes the correct code
\* never verifies.
C7_EmailVerificationWindow ==
    ( /\ otp_call.op = "verify"
      /\ otp_ch.purpose = "email_verification"
      /\ otp_call.age > 10 ) => (~otp_call.ok /\ ~ChallengeHeld)

\* C8: the issued code, submitted within the window, under the failure cap
\* and not yet used, verifies; and a submission verifies only if it is the
\* issued code of a challenge that has not verified before.
C8_OtpRoundTripOnce ==
    /\ ( /\ otp_call.op = "verify"
         /\ otp_call.issued
         /\ otp_call.correct
         /\ otp_call.age < ClaimedWindow(otp_ch.purpose)
         /\ otp_call.wrongs < 5
         /\ ~otp_call.verified ) => otp_call.ok
    /\ (otp_call.op = "verify" /\ otp_call.ok) =>
           /\ otp_call.correct
           /\ ~otp_call.verified
           /\ ~ChallengeHeld

C8_Witness ==
    /\ otp_call.op = "verify"
    /\ otp_call.correct
    /\ otp_call.verified
    /\ otp_call.wrongs = 0
    /\ otp_call.age = 0
    /\ ~otp_call.ok

\* C9: after generate_backup_codes, the first verify_backup_code of one of
\* the codes returns true and removes exactly that code's hash, a second
\* verify_backup_code of the same code returns false, and every other
\* generated code still verifies.
C9_BackupCodeSingleUse ==
    ( /\ bk.last.op = "verify"
      /\ InList(bk.issued, bk.last.code) ) =>
        /\ bk.last.code \notin bk.last.used =>
               /\ bk.last.ret
               /\ user.mfa_backup_codes = ListRemove(bk.last.pre, Sha256(bk.last.code))
               /\ Len(user.mfa_backup_codes) = Len(bk.last.pre) - 1
        /\ bk.last.code \in bk.last.used => ~bk.last.ret
        /\ \A i \in 1..Len(bk.issued) :
               bk.issued[i] \notin bk.used => verify_backup_code(user, bk.issued[i]).ret

\* C9 for generations whose draws are pairwise distinct.
C9_DistinctDrawsSingleUse ==
    (\A i, j \in 1..Len(bk.issued) : bk.issued[i] = bk.issued[j] => i = j)
        => C9_BackupCodeSingleUse

\* C10: two overlapping submissions of the same backup code, each made on an
\* instance loaded while the account held that code once, end in exactly one
\* success and one rejection.
C10_ConcurrentBackupCode ==
    \A w1, w2 \in Workers :
        ( /\ w1 # w2
          /\ res[w1] # None /\ res[w2] # None
          /\ res[w1][1].code = res[w2][1].code
          /\ res[w1][1].held = 1 /\ res[w2][1].held = 1 ) =>
            res[w1][1].ret # res[w2][1].ret

\* The session data a request of browser session s finds.
Data(s) == Load(session[s], now)

\* The MFA-pending marker login_view leaves.
MfaPending(d) == Truthy(d, "mfa_required") /\ Truthy(d, "mfa_user_id")

\* The first half of C1: a login POST with the correct password for an account
\* that requires MFA, from a device that is not trusted, leaves the session
\* unauthenticated, and when it passes it sets the MFA-pending marker with a
\* five-minute session expiry.
C1_LoginStepSetsMarkerOnly ==
    [][\A s \in Sessions, identifier \in {UsernameA, EmailA}, remember_me \in BOOLEAN :
          ( /\ requires_mfa(user)
            /\ ~is_trusted(devices, generate_device_id(s))
            /\ ~is_authenticated(Data(s))
            /\ LoginPost(s, identifier, PasswordA, remember_me) ) =>
              /\ ~is_authenticated(Load(session'[s], now'))
              /\ last'.result \in {"mfa_required", "form_invalid_login",
                                   "form_account_locked", "account_locked",
                                   "ip_rate_limited", "user_rate_limited"}
              /\ last'.result = "mfa_required" =>
                     /\ MfaPending(Load(session'[s], now'))
                     /\ session'[s].expire_at = <<now + MfaSessionMinutes>>]_vars

\* C1: for an account that requires MFA, a correct-password login POST from an
\* untrusted device does not authenticate the session, it only sets the
\* MFA-pending marker (five-minute expiry); and a session holding that marker
\* becomes authenticated only by mfa_verify_view accepting a code (or by a new
\* login POST that itself completes because MFA is no longer required of it).
C1_MfaBeforeAuthentication ==
    [][/\ \A s \in Sessions, identifier \in {UsernameA, EmailA}, remember_me \in BOOLEAN :
            ( /\ requires_mfa(user)
              /\ ~is_trusted(devices, generate_device_id(s))
              /\ ~is_authenticated(Data(s))
              /\ LoginPost(s, identifier, PasswordA, remember_me) ) =>
                /\ ~is_authenticated(Load(session'[s], now'))
                /\ last'.result = "mfa_required" =>
                       /\ MfaPending(Load(session'[s], now'))
                       /\ session'[s].expire_at = <<now + MfaSessionMinutes>>
       /\ \A s \in Sessions :
            ( /\ MfaPending(Data(s))
              /\ ~is_authenticated(Data(s))
              /\ is_authenticated(Load(session'[s], now')) ) =>
                /\ last'.s = s
                /\ \/ last'.op \in {"mfa_verify", "mfa_resend"} /\ last'.result = "login_mfa"
                   \/ last'.op = "login" /\ last'.result = "login"]_vars

\* C2: five wrong-password login POSTs in a row for the (verified) account,
\* from one address and within 15 minutes, starting from a clean account, leave
\* the account locked and the per-identifier limiter reporting limited.
C2_FiveWrongPasswordsLockAndLimit ==
    ( /\ streak.n = UserMaxAttempts
      /\ streak.at = now
      /\ user.email_verified ) =>
        /\ is_account_locked(user, now).ret
        /\ is_rate_limited(cache, "login_user:" \o streak.identifier, UserMaxAttempts, now)

\* C3: after five wrong-password login POSTs within 15 minutes for the
\* (verified) account, a sixth POST with the correct password is rejected with
\* the account-locked error and leaves the session unauthenticated.
C3_SixthCorrectPasswordRejected ==
    [][\A remember_me \in BOOLEAN :
          ( /\ streak.n = UserMaxAttempts
            /\ now - streak.start < RateWindowMinutes
            /\ user.email_verified
            /\ LoginPostCounted(streak.s, streak.identifier, PasswordA, remember_me) ) =>
              /\ last'.result \in {"form_account_locked", "account_locked"}
              /\ ~is_authenticated(Load(session'[streak.s], now'))]_vars

\* C11: when two concurrent failed-login requests for the account have both
\* completed, the stored failed_login_attempts has grown by 2, whatever the
\* order of their load and increment-and-save steps.
C11_ConcurrentFailedLogins ==
    (\A w \in Workers : res[w] # None) =>
        user.failed_login_attempts = call.pre.failed_login_attempts + 2

\* C12: in every state, a login POST with an identifier that resolves to no
\* account and a login POST with the account's username and a wrong password
\* show the same error messages.
C12_AntiEnumeration ==
    \A s \in Sessions, password \in Passwords \ {PasswordA} :
        login_message(login_view(Data(s), s, UsernameA, password, FALSE,
                                 user, cache, devices, alias, now).result)
        = login_message(login_view(Data(s), s, "nobody", password, FALSE,
                                   user, cache, devices, alias, now).result)

\* C12 while the account is not locked.
C12_AntiEnumerationUnlocked ==
    ~is_account_locked(user, now).ret => C12_AntiEnumeration

\* The response of login_view to a correct-password POST for the account from
\* the device of browser session s, made without a logged-in session.
NextLogin(s) ==
    login_view(EmptyData, s, UsernameA, PasswordA, FALSE, user, cache, devices, alias, now)

\* C13: when mfa_verify_view has just completed an MFA login from a device,
\* the completion recorded LOGIN_MFA, the device is trusted for the account,
\* and the next correct-password login from that device (the account not being
\* locked or rate limited) completes directly and records LOGIN.
C13_TrustAfterMfa ==
    ( /\ last.op \in {"mfa_verify", "mfa_resend"}
      /\ last.result = "login_mfa" ) =>
        /\ "LOGIN_MFA" \in last.logged
        /\ is_trusted(devices, generate_device_id(last.s))
        /\ ( /\ ~is_account_locked(user, now).ret
             /\ ~is_rate_limited(cache, "login_ip:" \o get_client_ip(last.s), IpMaxAttempts, now)
             /\ ~is_rate_limited(cache, "login_user:" \o UsernameA, UserMaxAttempts, now) ) =>
               /\ NextLogin(last.s).result = "login"
               /\ "LOGIN" \in NextLogin(last.s).logged

\* A TrustedDevice row exists for the device, is active and has not expired.
HasLiveRow(dev, id, t) ==
    \E i \in device_rows(dev, id) : dev[i].is_active /\ ~is_expired(dev[i], t)

\* C14: a correct-password login of an MFA account that gets as far as the
\* device-trust check completes directly exactly when a row for the device
\* exists, is active and has not expired, and is sent to MFA otherwise.
C14_TrustCheck ==
    \A s \in Sessions :
        ( /\ requires_mfa(user)
          /\ NextLogin(s).result \in {"login", "mfa_required"} ) =>
            /\ is_trusted(devices, generate_device_id(s))
                 <=> HasLiveRow(devices, generate_device_id(s), now)
            /\ NextLogin(s).result = "login"
                 <=> HasLiveRow(devices, generate_device_id(s), now)

\* The step is a call that finalized a login (complete_login or
\* complete_mfa_login) from a device that already had a row.
FinalizedAgain ==
    /\ calls' # calls
    /\ last'.result \in {"login", "login_mfa"}
    /\ device_rows(devices, generate_device_id(last'.s)) # {}

C15_OneRowPerDevice ==
    [][FinalizedAgain =>
         /\ Cardinality(device_rows(devices', generate_device_id(last'.s))) = 1
         /\ is_trusted(devices, generate_device_id(last'.s))
              => is_trusted(devices', generate_device_id(last'.s))]_vars

\* C16: while every increment_rate_limit(key) call made since the key was last
\* reset lies within one window, is_rate_limited(key, 5) is true exactly when
\* 5 or more such calls were made; after reset_rate_limit(key), and before
\* the next increment, it is false.
C16_RateLimiterCounting ==
    \A key \in RateKeys :
        /\ ( /\ call[key].n > 0
             /\ now - call[key].first < RateWindowMinutes ) =>
               ( is_rate_limited(cache, key, UserMaxAttempts, now)
                   <=> call[key].n >= UserMaxAttempts )
        /\ call[key].n = 0 => ~is_rate_limited(cache, key, UserMaxAttempts, now)

\* The fifth increment of a key has been made, later than the first and
\* within its window.
C16_Witness ==
    \E key \in RateKeys :
        /\ call[key].n = UserMaxAttempts
        /\ call[key].first < now
        /\ now - call[key].first < RateWindowMinutes
        /\ is_rate_limited(cache, key, UserMaxAttempts, now)

\* C17: when both concurrent increment_rate_limit calls for the key have
\* returned, the stored counter is two more than before them.
C17_ConcurrentIncrements ==
    (\A w \in Workers : res[w] # None) =>
        cache_get(cache, "rate_limit:" \o RaceKey, now) = call[RaceKey].n + 2

SameOutcome(a, b) ==
    /\ a.result = b.result
    /\ a.user = b.user
    /\ a.data = b.data
    /\ a.modified = b.modified
    /\ a.cache = b.cache
    /\ a.devices = b.devices
    /\ a.attempts = b.attempts

\* The view's response r is the same whether the SecurityLog write raises or
\* not, and is not a server error.
LogFailureSwallowed(r, d) ==
    /\ WithLog(r, d, TRUE).result # "server_error"
    /\ SameOutcome(WithLog(r, d, TRUE), WithLog(r, d, FALSE))

\* C19: in every state, for every login, registration, MFA and
\* email-verification request, the view answers and leaves the account, the
\* session, the cache and the device rows the same whether its SecurityLog
\* write raises or succeeds.
C19_LogFailureSwallowed ==
    \A s \in Sessions :
        /\ \A identifier \in Identifiers, password \in Passwords, remember_me \in BOOLEAN :
               LogFailureSwallowed(
                   login_view(Data(s), s, identifier, password, remember_me,
                              user, cache, devices, alias, now), Data(s))
        /\ \A code \in Submitted :
               LogFailureSwallowed(
                   mfa_verify_view(Data(s), s, "POST", code, FALSE, "",
                                   user, cache, devices, now), Data(s))
        /\ \A otp \in Codes6 :
               LogFailureSwallowed(
                   email_verification_pending(Data(s), s, "POST", otp,
                                              user, cache, devices, now), Data(s))
        /\ \A new_otp \in OtpDraws :
               LogFailureSwallowed(
                   register_view(Data(s), s, new_otp, user, cache, devices, now), Data(s))

\* A login was finalized while the SecurityLog write raised: the session is
\* authenticated and no row was written.
C19_Witness ==
    /\ last.result \in {"login", "login_mfa"}
    /\ last.logged = {}
    /\ is_authenticated(Data(last.s))

\* C20: while the account is locked, a login POST with its password, under
\* its name or its email, leaves failed_login_attempts and
\* account_locked_until as they are and leaves the login_user and login_ip
\* counters of the request as they are.
C20_LockedLoginNotCounted ==
    is_account_locked(user, now).ret =>
        \A s \in Sessions, identifier \in {UsernameA, EmailA}, remember_me \in BOOLEAN :
            LET r == login_view(Data(s), s, identifier, PasswordA, remember_me,
                                user, cache, devices, alias, now)
            IN  /\ r.user.failed_login_attempts = user.failed_login_attempts
                /\ r.user.account_locked_until = user.account_locked_until
                /\ \A key \in {"rate_limit:login_user:" \o identifier,
                               "rate_limit:login_ip:" \o get_client_ip(s)} :
                       /\ cache_get(r.cache, key, now) = cache_get(cache, key, now)
                       /\ Get(r.cache, key, None) = Get(cache, key, None)

\* A login POST with the right password has just been refused because the
\* account is locked.
C20_Witness ==
    /\ last.op = "login_correct_password"
    /\ last.result \in {"form_account_locked", "account_locked"}
    /\ is_account_locked(user, now).ret
    /\ user.failed_login_attempts >= LockThresholdShort

\* C21: a login POST with the account's name and password that passes the
\* password check leaves failed_login_attempts at 0 and account_locked_until
\* empty, leaves no login_user counter for the identifier, and leaves the
\* login_ip counter of the request as it was.
C21_SuccessResets ==
    \A s \in Sessions, remember_me \in BOOLEAN :
        LET r == login_view(Data(s), s, UsernameA, PasswordA, remember_me,
                            user, cache, devices, alias, now)
            ipkey == "rate_limit:login_ip:" \o get_client_ip(s)
            idkey == "rate_limit:login_user:" \o UsernameA
        IN  r.result \in {"login", "mfa_required"} =>
                /\ r.user.failed_login_attempts = 0
                /\ r.user.account_locked_until = None
                /\ idkey \notin DOMAIN r.cache
                /\ Get(r.cache, ipkey, None) = Get(cache, ipkey, None)

\* A right-password login has just passed from an address whose login_ip
\* counter still holds earlier failures, and the account has none on record.
C21_Witness ==
    /\ last.op = "login_correct_password"
    /\ last.result \in {"login", "mfa_required"}
    /\ cache_get(cache, "rate_limit:login_ip:" \o get_client_ip(last.s), now) > 0
    /\ cache_get(cache, "rate_limit:login_user:" \o EmailA, now) > 0
    /\ user.failed_login_attempts = 0
    /\ user.account_locked_until = None

\* C22: a login POST from a session that is not logged in and an address that
\* is not rate limited, with an identifier that resolves to no account, adds
\* one to the login_ip counter of the address and leaves every login_user
\* counter and the account row as they were.
C22_UnknownIdentifierCountsIp ==
    \A s \in Sessions, password \in Passwords :
        LET r == login_view(Data(s), s, "nobody", password, FALSE,
                            user, cache, devices, alias, now)
            ipkey == "rate_limit:login_ip:" \o get_client_ip(s)
        IN  ( /\ ~is_authenticated(Data(s))
              /\ ~is_rate_limited(cache, "login_ip:" \o get_client_ip(s), IpMaxAttempts, now) ) =>
                /\ cache_get(r.cache, ipkey, now) = cache_get(cache, ipkey, now) + 1
                /\ \A identifier \in Identifiers :
                       Get(r.cache, "rate_limit:login_user:" \o identifier, None)
                       = Get(cache, "rate_limit:login_user:" \o identifier, None)
                /\ r.user = user

\* The frame part of C22 alone: no login_user counter and no field of the
\* account row changes.
C22_UnknownIdentifierFrame ==
    \A s \in Sessions, password \in Passwords :
        LET r == login_view(Data(s), s, "nobody", password, FALSE,
                            user, cache, devices, alias, now)
        IN  /\ \A identifier \in Identifiers :
                   Get(r.cache, "rate_limit:login_user:" \o identifier, None)
                   = Get(cache, "rate_limit:login_user:" \o identifier, None)
            /\ r.user = user

\* The login POSTs C23 is about: the account's email is not verified, the
\* session is not logged in and no rate limit stops the request.
UnverifiedLoginCase(s, identifier) ==
    /\ ~user.email_verified
    /\ ~is_authenticated(Data(s))
    /\ ~is_rate_limited(cache, "login_ip:" \o get_client_ip(s), IpMaxAttempts, now)
    /\ ~is_rate_limited(cache, "login_user:" \o identifier, UserMaxAttempts, now)

\* C23: such a POST, under the account's name or email and with any
\* password, is sent to the email-verification flow, leaves the session
\* unauthenticated, and leaves the account row and the cache as they were.
C23_UnverifiedShortCircuit ==
    \A s \in Sessions, identifier \in {UsernameA, EmailA}, password \in Passwords :
        LET r == login_view(Data(s), s, identifier, password, FALSE,
                            user, cache, devices, alias, now)
        IN  UnverifiedLoginCase(s, identifier) =>
                /\ r.result = "verify_email_first"
                /\ ~is_authenticated(r.data)
                /\ r.user = user
                /\ r.cache = cache

\* The part of C23 that holds: no session is authenticated and neither the
\* account row nor the cache changes, and the right password under the
\* account's name is sent to the email-verification flow.
C23_UnverifiedNeverLoggedIn ==
    \A s \in Sessions, identifier \in {UsernameA, EmailA}, password \in Passwords :
        LET r == login_view(Data(s), s, identifier, password, FALSE,
                            user, cache, devices, alias, now)
        IN  UnverifiedLoginCase(s, identifier) =>
                /\ ~is_authenticated(r.data)
                /\ r.user = user
                /\ r.cache = cache
                /\ (identifier = UsernameA /\ password = PasswordA)
                     => r.result = "verify_email_first"

\* C24: for an account with google_authenticator MFA whose session is MFA
\* pending, a submitted code that is not the TOTP code but is one of the
\* account's unused backup codes completes the login and removes one stored
\* copy of that code; a code that is neither is refused.
C24_BackupCodeFallback ==
    \A s \in Sessions, code \in Submitted \cup Codes8 :
        LET r == mfa_verify_view(Data(s), s, "POST", code, FALSE, "",
                                 user, cache, devices, now)
            h == Sha256(code)
        IN  ( /\ MfaPending(Data(s))
              /\ user.email_verified
              /\ user.mfa_method = "google_authenticator"
              /\ ~verify_totp(user, code, now) ) =>
                IF InList(user.mfa_backup_codes, h)
                THEN /\ r.result = "login_mfa"
                     /\ is_authenticated(r.data)
                     /\ CountIn(r.user.mfa_backup_codes, h)
                          = CountIn(user.mfa_backup_codes, h) - 1
                ELSE /\ r.result # "login_mfa"
                     /\ ~is_authenticated(r.data)

\* The response to a resend request made now from browser session s.
ResendNow(s) ==
    mfa_verify_view(Data(s), s, "POST", "111111", TRUE, "111111",
                    user, cache, devices, now)

\* C25: (a) a password login that has just put a session of an email-MFA
\* account in MFA pending leaves it able to have the code resent; (b) a
\* resend request refused for the cap stores no new code; (c) after such a
\* refusal no MFA code is accepted in that session until its next password
\* login.
C25_ResendCap ==
    [][ /\ ( /\ calls' # calls
             /\ last'.op = "login"
             /\ last'.result = "mfa_required"
             /\ user'.mfa_method = "email" )
             => mfa_verify_view(Load(session'[last'.s], now'), last'.s, "POST", "111111",
                                TRUE, "111111", user', cache', devices', now').result
                = "resent"
        /\ ( /\ calls' # calls
             /\ last'.result = "resend_max" )
             => Load(session'[last'.s], now') = Load(session[last'.s], now)
        /\ ( /\ calls' # calls
             /\ last.result = "resend_max"
             /\ last'.s = last.s
             /\ last'.op = "mfa_verify" )
             => last'.result # "login_mfa" ]_vars

\* The part of C25 that holds: a session never gets more than 3 resends
\* counted, and at 3 a resend request is refused and changes nothing.
C25_AtMostThreeResends ==
    \A s \in Sessions :
        /\ Get(Data(s), "mfa_otp_resend_count", 0) <= MfaResendMax
        /\ ( /\ MfaPending(Data(s))
             /\ user.email_verified
             /\ user.mfa_method = "email"
             /\ Get(Data(s), "mfa_otp_resend_count", 0) = MfaResendMax ) =>
               /\ ResendNow(s).result = "resend_max"
               /\ ResendNow(s).data = Data(s)

\* C26: while the key's first increment since it was absent is less than one
\* window old, the key's entry expires one window after that first
\* increment, however many increments followed it.
C26_FixedWindow ==
    \A key \in RateKeys :
        ( /\ call[key].n > 0
          /\ now - call[key].first < RateWindowMinutes ) =>
            /\ ("rate_limit:" \o key) \in DOMAIN cache
            /\ cache["rate_limit:" \o key].exp = call[key].first + RateWindowMinutes

\* C27: when a submitted MFA code completes the login, the account row, the
\* device rows, the authenticated session and its expiry setting are those
\* complete_login leaves for one of the two remember-me choices, and
\* LOGIN_MFA is the event recorded.
C27_MfaFinalizeEquivalent ==
    \A s \in Sessions, code \in Codes6 :
        LET r == mfa_verify_view(Data(s), s, "POST", code, FALSE, "",
                                 user, cache, devices, now)
        IN  r.result = "login_mfa" =>
                /\ r.logged = {"LOGIN_MFA"}
                /\ is_authenticated(r.data)
                /\ \E remember_me \in BOOLEAN :
                       LET f == complete_login(Data(s), s, user, cache, devices,
                                               remember_me, now, <<>>)
                       IN  /\ r.user = f.user
                           /\ r.devices = f.devices
                           /\ Get(r.data, "_session_expiry", 0)
                                = Get(f.data, "_session_expiry", 0)

\* The part of C27 that holds: the account row, the device rows and the
\* authenticated session are as after complete_login.
C27_MfaFinalizeLogsIn ==
    \A s \in Sessions, code \in Codes6 :
        LET r == mfa_verify_view(Data(s), s, "POST", code, FALSE, "",
                                 user, cache, devices, now)
            f == complete_login(Data(s), s, user, cache, devices, FALSE, now, <<>>)
        IN  r.result = "login_mfa" =>
                /\ r.logged = {"LOGIN_MFA"}
                /\ is_authenticated(r.data)
                /\ r.user = f.user
                /\ r.devices = f.devices

\* C28: a session becomes authenticated only by a request of its own that
\* passes the password check of login_view, or submits a correct MFA code, or
\* submits the correct email-verification OTP; a session already holding the
\* MFA-pending marker has passed the password check before.  In particular
\* email_verification_pending does not log in a session that only requested a
\* resend and finds the account verified by another session.
C28_AuthenticatedOnlyAfterProof ==
    [][\A s \in Sessions :
          ( /\ ~is_authenticated(Data(s))
            /\ is_authenticated(Load(session'[s], now')) ) =>
              /\ last'.s = s
              /\ \/ last'.op = "login" /\ last'.result = "login"
                 \/ last'.op \in {"mfa_verify", "mfa_resend"}
                      /\ last'.result = "login_mfa"
                 \/ last'.op = "email_verification" /\ last'.result = "email_verified"
                 \/ MfaPending(Data(s))]_vars

\* The part of C28 that holds: login_view and mfa_verify_view authenticate a
\* session only on the correct password or a correct code.
C28_LoginAndMfaNeedProof ==
    [][\A s \in Sessions :
          ( /\ ~is_authenticated(Data(s))
            /\ is_authenticated(Load(session'[s], now'))
            /\ last'.op \in {"login", "mfa_verify", "mfa_verify_get", "mfa_resend"} ) =>
              /\ last'.s = s
              /\ last'.result \in {"login", "login_mfa"}]_vars

\* The account's lock expiry is in the future.
LockInFuture(u, t) ==
    u.account_locked_until # None /\ u.account_locked_until[1] > t

\* C29: while the account's lock expiry is in the future, no request of the
\* login or MFA-challenge flow establishes an authenticated session for it,
\* including a request from a session that reached MFA-pending before the
\* account was locked by failed logins from elsewhere.
C29_NoLoginWhileLocked ==
    [][( /\ calls' # calls
         /\ last'.op \in {"login", "mfa_verify", "mfa_verify_get", "mfa_resend"}
         /\ LockInFuture(user, now) ) =>
            /\ last'.result \notin {"login", "login_mfa"}
            /\ is_authenticated(Load(session'[last'.s], now'))
                 => is_authenticated(Data(last'.s))]_vars

\* The part of C29 that holds: login_view itself never completes a login while
\* the lock expiry is in the future.
C29_LoginViewRefusesLocked ==
    [][( /\ calls' # calls
         /\ last'.op = "login"
         /\ LockInFuture(user, now) ) =>
            last'.result \notin {"login", "mfa_required"}]_vars

\* C30: after any sequence of increment_failed_login, is_account_locked and
\* reset_failed_logins on the account, with time passing between the calls,
\* failed_login_attempts is not negative and it is at least 3 exactly when
\* account_locked_until is set.
C30_CounterMatchesLock ==
    /\ user.failed_login_attempts >= 0
    /\ user.failed_login_attempts >= LockThresholdShort
         <=> user.account_locked_until # None

\* The third failure in a row, some time after the first, has just set the lock.
C30_Witness ==
    /\ call.op = "increment_failed_login"
    /\ call.pre.failed_login_attempts = LockThresholdShort - 1
    /\ call.pre.account_locked_until = None
    /\ user.failed_login_attempts = LockThresholdShort
    /\ user.account_locked_until # None
    /\ now > 0

====
